---- MODULE Spec2Model ----
(***************************************************************************)
(* A model of torchsnapshot/batcher.py: the slab-aggregating buffer stager *)
(* and consumer, the write batcher and the read batcher.                   *)
(*                                                                         *)
(* Python values are represented as follows:                               *)
(*   - a dict is a sequence of <<key, value>> pairs with distinct keys, in *)
(*     insertion order (DictPut keeps the position of an existing key);    *)
(*   - a byte range (lo, hi) is the tuple <<lo, hi>>; None is <<>>;        *)
(*   - a buffer is a sequence of bytes (0..255);                           *)
(*   - an object whose identity matters (a manifest entry) lives in a heap *)
(*     and is referred to by its address.                                  *)
(***************************************************************************)
EXTENDS Integers, Sequences, FiniteSets, TLC

VARIABLES
    \* ---- BatchedBufferStager -------------------------------------------
    byte_range_to_buffer_stager, \* self.byte_range_to_buffer_stager (dict)
    slab_sz_bytes,               \* self.slab_sz_bytes
    stager_pc,                   \* where the constructor / stage_buffer is
    stager_error,                \* the exception that ended it, or "none"
    slab,                        \* the bytearray of stage_buffer
    staging_tasks,               \* the set staging_tasks (tasks named by range)
    done,                        \* the set returned by asyncio.wait, being iterated
    task_state,                  \* byte range -> "running" | "finished"
    task_outcome,                \* byte range -> what the sub-task ended with
    placed,                      \* history: the byte ranges copied into the slab, in order
    \* ---- BatchedBufferConsumer -----------------------------------------
    byte_range_to_buffer_consumer, \* self.byte_range_to_buffer_consumer (dict)
    buf_sz_bytes,                \* self.buf_sz_bytes
    buf,                         \* the buffer handed to consume_buffer
    consumer_pc,                 \* where consume_buffer is
    consumer_error,              \* the exception that ended it, or "none"
    consume_tasks,               \* the list consume_tasks
    \* ---- batch_write_requests ------------------------------------------
    entries,                     \* the caller's list of entries
    heap,                        \* address -> tensor entry object (location, byte_range)
    write_reqs,                  \* the argument write_reqs
    slab_size_threshold_bytes,   \* the threshold in force
    write_pc,                    \* where batch_write_requests is
    write_error,                 \* the exception that ended it, or "none"
    wr_index,                    \* position of "for wr in write_reqs"
    batched_write_reqs,          \* the list batched_write_reqs
    slab_locations,              \* the list slab_locations
    slabs,                       \* the list of builders
    curr_slab_sz_bytes,          \* curr_slab_sz_bytes
    relocation,                  \* the dict relocation
    new_entries,                 \* the local "entries" after copy.deepcopy
    location_to_entry,           \* the dict location_to_entry (location -> address)
    reloc_index,                 \* position of "for ... in relocation.items()"
    write_ret,                   \* the returned pair, or None
    caller_heap,                 \* history: the caller's entry objects before the call
    \* ---- batch_read_requests -------------------------------------------
    read_reqs,                   \* the argument read_reqs
    read_pc,                     \* where batch_read_requests is
    rr_index,                    \* position of "for rr in read_reqs"
    batched_read_reqs,           \* the list batched_read_reqs
    location_to_ranged_read_reqs, \* the defaultdict(list)
    location_to_byte_range,      \* the dict location_to_byte_range
    loc_index                    \* position of the loop over location_to_ranged_read_reqs

stagerVars == <<byte_range_to_buffer_stager, slab_sz_bytes, stager_pc,
                stager_error, slab, staging_tasks, done, task_state,
                task_outcome, placed>>

consumerVars == <<byte_range_to_buffer_consumer, buf_sz_bytes, buf,
                  consumer_pc, consumer_error, consume_tasks>>

writeVars == <<entries, heap, write_reqs, slab_size_threshold_bytes, write_pc,
               write_error, wr_index, batched_write_reqs, slab_locations, slabs,
               curr_slab_sz_bytes, relocation, new_entries, location_to_entry,
               reloc_index, write_ret, caller_heap>>

readVars == <<read_reqs, read_pc, rr_index, batched_read_reqs,
              location_to_ranged_read_reqs, location_to_byte_range, loc_index>>

vars == <<stagerVars, consumerVars, writeVars, readVars>>

notStager == <<consumerVars, writeVars, readVars>>
notConsumer == <<stagerVars, writeVars, readVars>>
notWrite == <<stagerVars, consumerVars, readVars>>
notRead == <<stagerVars, consumerVars, writeVars>>

None == <<>>

\* ------------------------------------------------------------------ bounds
MaxOff == 3
MaxStagers == 3
MaxConsumers == 2
MaxReqs == 4
MaxSize == 2
MaxNested == 2
MaxUniform == 4
MaxUniformSize == 3
MaxReads == 3

\* ------------------------------------------------------------ Python values
Min(a, b) == IF a <= b THEN a ELSE b
Max(a, b) == IF a >= b THEN a ELSE b

DictKeys(d) == {d[i][1] : i \in 1..Len(d)}
DictHas(d, k) == k \in DictKeys(d)
DictIndex(d, k) == CHOOSE i \in 1..Len(d) : d[i][1] = k
DictGet(d, k) == d[DictIndex(d, k)][2]
DictValues(d) == [i \in 1..Len(d) |-> d[i][2]]
\* d[k] = v
DictPut(d, k, v) ==
    IF DictHas(d, k)
    THEN [d EXCEPT ![DictIndex(d, k)] = <<k, v>>]
    ELSE Append(d, <<k, v>>)

\* dict(zip(keys, values)): a later pair with an equal key replaces the value
RECURSIVE DictZipFrom(_, _, _, _)
DictZipFrom(d, keys, values, i) ==
    IF i > Min(Len(keys), Len(values)) THEN d
    ELSE DictZipFrom(DictPut(d, keys[i], values[i]), keys, values, i + 1)
DictZip(keys, values) == DictZipFrom(<<>>, keys, values, 1)

\* tuple comparison of two byte ranges, as sorted() compares them
TupleLess(a, b) == a[1] < b[1] \/ (a[1] = b[1] /\ a[2] < b[2])

RECURSIVE Sorted(_)
Sorted(S) ==
    IF S = {} THEN <<>>
    ELSE LET m == CHOOSE x \in S : \A y \in S \ {x} : TupleLess(x, y)
         IN <<m>> \o Sorted(S \ {m})

Zeros(n) == [i \in 1..n |-> 0]

\* (mutant) the buffer is copied to the front of the slab, not to its range
SliceAssignAtStart(s, lo, hi, b) ==
    b \o SubSeq(s, Len(b) + 1, Len(s))

\* slab[lo:hi] = b on a bytearray: the slice bounds are clamped to the length,
\* the slice is replaced by b (the bytearray grows or shrinks when the sizes differ)
SliceAssign(s, lo, hi, b) ==
    LET n == Len(s)
        l == Min(Max(lo, 0), n)
        h == Max(Min(Max(hi, 0), n), l)
    IN SubSeq(s, 1, l) \o b \o SubSeq(s, h + 1, n)

\* buf[lo:hi] on bytes
Slice(s, lo, hi) ==
    LET n == Len(s)
        l == Min(Max(lo, 0), n)
        h == Max(Min(Max(hi, 0), n), l)
    IN SubSeq(s, l + 1, h)

\* ------------------------------------------------- BatchedBufferStager.__init__
\* the loop over byte_ranges[1:]: the last end, or -1 when a range does not
\* start where the previous one ended
RECURSIVE ConsecutiveEnd(_, _, _)
ConsecutiveEnd(byte_ranges, i, end) ==
    IF i > Len(byte_ranges) THEN end
    ELSE IF byte_ranges[i][1] # end THEN -1
    ELSE ConsecutiveEnd(byte_ranges, i + 1, byte_ranges[i][2])

\* the constructor's outcome for a dict of byte ranges
BatchedBufferStager(mapping) ==
    LET byte_ranges == Sorted(DictKeys(mapping))
    IN IF Len(byte_ranges) = 0
       THEN [error |-> "IndexError", slab_sz_bytes |-> 0]
       ELSE LET end == ConsecutiveEnd(byte_ranges, 2, byte_ranges[1][2])
            IN IF end = -1
               THEN [error |-> "AssertionError: not consecutive", slab_sz_bytes |-> 0]
               ELSE [error |-> "none", slab_sz_bytes |-> end]

\* --------------------------------------------------------- sub-producer tasks
\* the buffer a sub-producer returns: fixed by the producer and the length
StagedBuffer(stager, n) == [k \in 1..n |-> (16 * stager + k) % 256]

\* what buffer_stager.stage_buffer() of the stager at byte_range may end with: a
\* buffer of the range's length, one byte longer or shorter, or an exception
SubTaskOutcomes(byte_range, stager) ==
    LET n == byte_range[2] - byte_range[1]
    IN {[exc |-> FALSE, buf |-> StagedBuffer(stager, m)] :
            m \in {k \in {n - 1, n, n + 1} : k >= 0}}
       \cup {[exc |-> TRUE, buf |-> <<>>]}

AllRanges == {<<lo, hi>> : lo \in 0..MaxOff, hi \in 0..MaxOff}
ByteRanges == {r \in AllRanges : r[1] <= r[2]}

\* the dicts a caller may hand to the constructor: up to MaxStagers byte ranges,
\* each with its own producer
StagerDict(S) == LET rs == Sorted(S) IN [i \in 1..Len(rs) |-> <<rs[i], i>>]
StagerDicts == {StagerDict(S) : S \in {T \in SUBSET ByteRanges : Cardinality(T) <= MaxStagers}}

StagerIdle ==
    /\ byte_range_to_buffer_stager = <<>>
    /\ slab_sz_bytes = 0
    /\ stager_pc = "idle"
    /\ stager_error = "none"
    /\ slab = <<>>
    /\ staging_tasks = {}
    /\ done = {}
    /\ task_state = <<>>
    /\ task_outcome = <<>>
    /\ placed = <<>>

ConsumerIdle ==
    /\ byte_range_to_buffer_consumer = <<>>
    /\ buf_sz_bytes = 0
    /\ buf = <<>>
    /\ consumer_pc = "idle"
    /\ consumer_error = "none"
    /\ consume_tasks = <<>>

WriteIdle ==
    /\ entries = <<>>
    /\ heap = <<>>
    /\ write_reqs = <<>>
    /\ slab_size_threshold_bytes = 0
    /\ write_pc = "idle"
    /\ write_error = "none"
    /\ wr_index = 0
    /\ batched_write_reqs = <<>>
    /\ slab_locations = <<>>
    /\ slabs = <<>>
    /\ curr_slab_sz_bytes = 0
    /\ relocation = <<>>
    /\ new_entries = <<>>
    /\ location_to_entry = <<>>
    /\ reloc_index = 0
    /\ write_ret = None
    /\ caller_heap = <<>>

ReadIdle ==
    /\ read_reqs = <<>>
    /\ read_pc = "idle"
    /\ rr_index = 0
    /\ batched_read_reqs = <<>>
    /\ location_to_ranged_read_reqs = <<>>
    /\ location_to_byte_range = <<>>
    /\ loc_index = 0

InitStager ==
    /\ ConsumerIdle
    /\ WriteIdle
    /\ ReadIdle
    /\ byte_range_to_buffer_stager \in StagerDicts
    /\ slab_sz_bytes = 0
    /\ stager_pc = "new"
    /\ stager_error = "none"
    /\ slab = <<>>
    /\ staging_tasks = {}
    /\ done = {}
    /\ task_state = <<>>
    /\ task_outcome = <<>>
    /\ placed = <<>>

\* BatchedBufferStager.__init__
Construct ==
    /\ stager_pc = "new"
    /\ LET r == BatchedBufferStager(byte_range_to_buffer_stager)
       IN /\ stager_error' = r.error
          /\ slab_sz_bytes' = r.slab_sz_bytes
          /\ stager_pc' = IF r.error = "none" THEN "constructed" ELSE "failed"
    /\ UNCHANGED <<byte_range_to_buffer_stager, slab, staging_tasks, done,
                   task_state, task_outcome, placed>>
    /\ UNCHANGED notStager

\* stage_buffer up to its first await: the slab and one task per dict item
StageStart ==
    /\ stager_pc = "constructed"
    /\ slab' = Zeros(slab_sz_bytes)
    /\ staging_tasks' = DictKeys(byte_range_to_buffer_stager)
    /\ task_state' = [r \in DictKeys(byte_range_to_buffer_stager) |-> "running"]
    /\ task_outcome' = [r \in DictKeys(byte_range_to_buffer_stager) |-> None]
    /\ done' = {}
    /\ stager_pc' = IF staging_tasks' = {} THEN "returned" ELSE "wait"
    /\ UNCHANGED <<byte_range_to_buffer_stager, slab_sz_bytes, stager_error,
                   placed>>
    /\ UNCHANGED notStager

\* a sub-producer's task ends, whenever the event loop runs it to its end
SubTaskFinish(t) ==
    /\ t \in DOMAIN task_state
    /\ task_state[t] = "running"
    /\ \E o \in SubTaskOutcomes(t, DictGet(byte_range_to_buffer_stager, t)) :
          task_outcome' = [task_outcome EXCEPT ![t] = o]
    /\ task_state' = [task_state EXCEPT ![t] = "finished"]
    /\ UNCHANGED <<byte_range_to_buffer_stager, slab_sz_bytes, stager_pc,
                   stager_error, slab, staging_tasks, done, placed>>
    /\ UNCHANGED notStager

\* await asyncio.wait(staging_tasks, return_when=FIRST_COMPLETED) returns
WaitFirstCompleted ==
    /\ stager_pc = "wait"
    /\ LET fin == {t \in staging_tasks : task_state[t] = "finished"}
       IN /\ fin # {}
          /\ done' = fin
    /\ stager_pc' = "for"
    /\ UNCHANGED <<byte_range_to_buffer_stager, slab_sz_bytes, stager_error,
                   slab, staging_tasks, task_state, task_outcome, placed>>
    /\ UNCHANGED notStager

\* where stage_buffer is after the body of "for task in done" ended normally
AfterForBody(done_left, tasks_left) ==
    IF done_left # {} THEN "for"
    ELSE IF tasks_left # {} THEN "wait"
    ELSE "returned"

\* (mutant) a buffer shorter than its range is accepted
SizeMatchesAtMost(b, byte_range) == Len(b) <= byte_range[2] - byte_range[1]

\* the negation of "if len(buf) != byte_range[1] - byte_range[0]"
SizeMatches(b, byte_range) == Len(b) = byte_range[2] - byte_range[1]

\* one iteration of "for task in done"
ForTaskInDone(t) ==
    /\ stager_pc = "for"
    /\ t \in done
    /\ staging_tasks' = staging_tasks \ {t}
    /\ done' = done \ {t}
    /\ IF task_outcome[t].exc
       THEN \* task.result() raises the sub-task's exception
            /\ stager_pc' = "raised"
            /\ stager_error' = "SubTaskError"
            /\ UNCHANGED <<slab, placed>>
       ELSE IF ~SizeMatches(task_outcome[t].buf, t)
       THEN /\ stager_pc' = "raised"
            /\ stager_error' = "AssertionError: size mismatch"
            /\ UNCHANGED <<slab, placed>>
       ELSE /\ slab' = SliceAssign(slab, t[1], t[2], task_outcome[t].buf)
            /\ placed' = Append(placed, t)
            /\ stager_pc' = AfterForBody(done', staging_tasks')
            /\ stager_error' = stager_error
    /\ UNCHANGED <<byte_range_to_buffer_stager, slab_sz_bytes, task_state,
                   task_outcome>>
    /\ UNCHANGED notStager

NextStager ==
    \/ Construct
    \/ StageStart
    \/ \E t \in ByteRanges : SubTaskFinish(t)
    \/ WaitFirstCompleted
    \/ \E t \in ByteRanges : ForTaskInDone(t)

SpecStager == InitStager /\ [][NextStager]_vars

\* ===================================================== claims on the stager
\* the slab that depends on the dict alone: each producer's buffer at its byte
\* range, zero where no range covers the byte
CoveringItems(k) ==
    {i \in 1..Len(byte_range_to_buffer_stager) :
        /\ byte_range_to_buffer_stager[i][1][1] < k
        /\ k <= byte_range_to_buffer_stager[i][1][2]}

ExpectedSlab ==
    [k \in 1..slab_sz_bytes |->
        IF CoveringItems(k) = {} THEN 0
        ELSE LET it == byte_range_to_buffer_stager[CHOOSE i \in CoveringItems(k) : TRUE]
             IN StagedBuffer(it[2], it[1][2] - it[1][1])[k - it[1][1]]]

AllFinishedExact ==
    \A t \in DOMAIN task_state :
        task_state[t] = "finished" =>
            /\ ~task_outcome[t].exc
            /\ Len(task_outcome[t].buf) = t[2] - t[1]

\* C1: when every sub-producer returns a buffer of exactly its range's length,
\* stage_buffer does not fail, and the slab it returns is the same whatever the
\* order in which the sub-tasks completed: bytes [lo, hi) of the slab are the
\* buffer of the producer assigned to (lo, hi), for every range of the dict.
C1_SlabByAssignedRange ==
    /\ (stager_pc = "raised" => ~AllFinishedExact)
    /\ (stager_pc = "returned" /\ AllFinishedExact) =>
          /\ slab = ExpectedSlab
          /\ \A i \in 1..Len(byte_range_to_buffer_stager) :
                LET r == byte_range_to_buffer_stager[i][1]
                    st == byte_range_to_buffer_stager[i][2]
                IN Slice(slab, r[1], r[2]) = StagedBuffer(st, r[2] - r[1])

\* C1 witness: a slab of three non-empty ranges returned after the sub-tasks'
\* buffers were copied in the reverse of the range order
C1_Witness ==
    /\ stager_pc = "returned"
    /\ AllFinishedExact
    /\ placed = <<<<2, 3>>, <<1, 2>>, <<0, 1>>>>

\* the ranges, sorted by lower bound, tile [0, total) and the slab size is total
TilesFromZero(S, size) ==
    LET rs == Sorted(S)
    IN /\ Len(rs) > 0
       /\ rs[1][1] = 0
       /\ \A i \in 2..Len(rs) : rs[i][1] = rs[i - 1][2]
       /\ size = rs[Len(rs)][2]

\* C4: construction succeeds only when the byte ranges tile [0, total) exactly
\* and the slab size is the total span; a set of ranges with a gap, an overlap
\* or a first lower bound other than 0 fails with the not-consecutive error.
C4_ConstructOnlyTiling ==
    LET S == DictKeys(byte_range_to_buffer_stager)
    IN /\ stager_pc = "constructed" => TilesFromZero(S, slab_sz_bytes)
       /\ (stager_pc = "failed" /\ S # {}) =>
             stager_error = "AssertionError: not consecutive"

\* the sub-tasks that returned a buffer whose length is not that of their range
WrongLength ==
    {t \in DOMAIN task_state :
        /\ task_state[t] = "finished"
        /\ ~task_outcome[t].exc
        /\ Len(task_outcome[t].buf) # t[2] - t[1]}

\* the sub-tasks that ended with an exception
Raised == {t \in DOMAIN task_state : task_state[t] = "finished" /\ task_outcome[t].exc}

StageEnded == stager_pc \in {"returned", "raised"}

\* C13 as stated: if a sub-producer returned a buffer of the wrong length,
\* stage_buffer never returns a slab and fails with the size-mismatch error,
\* in every completion order.
C13_SpecStatement ==
    (StageEnded /\ WrongLength # {}) =>
        /\ stager_pc = "raised"
        /\ stager_error = "AssertionError: size mismatch"

\* C13 as amended: if a sub-producer returned a buffer of the wrong length,
\* stage_buffer never returns a slab: it fails, with the size-mismatch error
\* or, when another sub-producer raised, with that sub-producer's exception;
\* when no sub-producer raised the error is the size-mismatch error.
C13_WrongLengthNeverReturned ==
    (StageEnded /\ WrongLength # {}) =>
        /\ stager_pc = "raised"
        /\ \/ stager_error = "AssertionError: size mismatch"
           \/ stager_error = "SubTaskError" /\ Raised # {}
        /\ Raised = {} => stager_error = "AssertionError: size mismatch"

\* C13 witness: the size-mismatch error after two buffers were copied, the
\* wrong buffer being the last to complete
C13_Witness ==
    /\ stager_pc = "raised"
    /\ stager_error = "AssertionError: size mismatch"
    /\ Cardinality(WrongLength) = 1
    /\ Raised = {}
    /\ Len(placed) = 2
    /\ staging_tasks = {}

\* the sub-tasks stage_buffer created that have not completed
StillRunning == {t \in DOMAIN task_state : task_state[t] = "running"}

\* C14: when stage_buffer has ended, by returning or by failing, none of the
\* sub-tasks it started is still running.
C14_EndsAfterAllSubTasks ==
    StageEnded => StillRunning = {}

\* ====================================================== BatchedBufferConsumer
\* the bytes the I/O layer read: byte k of the object is k % 256
ObjectBytes(lo, hi) == [k \in 1..(hi - lo) |-> (lo + k - 1) % 256]

ConsumerDict(S) == LET rs == Sorted(S) IN [i \in 1..Len(rs) |-> <<rs[i], i>>]
ConsumerDicts ==
    {ConsumerDict(S) : S \in {T \in SUBSET ByteRanges : Cardinality(T) <= MaxConsumers}}

InitConsumer ==
    /\ StagerIdle
    /\ WriteIdle
    /\ ReadIdle
    /\ byte_range_to_buffer_consumer \in ConsumerDicts
    /\ buf_sz_bytes \in 0..MaxOff
    /\ buf = ObjectBytes(0, buf_sz_bytes)
    /\ consumer_pc = "new"
    /\ consumer_error = "none"
    /\ consume_tasks = <<>>

\* the list comprehension of consume_buffer: one task per dict item, each given
\* its slice of buf
CreateConsumeTasks(mapping, b) ==
    [i \in 1..Len(mapping) |->
        [byte_range |-> mapping[i][1],
         buffer_consumer |-> mapping[i][2],
         arg |-> Slice(b, mapping[i][1][1], mapping[i][1][2]),
         state |-> "running",
         exc |-> FALSE]]

\* consume_buffer up to its await; asyncio.wait refuses an empty list
ConsumeStart ==
    /\ consumer_pc = "new"
    /\ consume_tasks' = CreateConsumeTasks(byte_range_to_buffer_consumer, buf)
    /\ IF Len(consume_tasks') = 0
       THEN /\ consumer_pc' = "raised"
            /\ consumer_error' = "ValueError"
       ELSE /\ consumer_pc' = "wait"
            /\ consumer_error' = consumer_error
    /\ UNCHANGED <<byte_range_to_buffer_consumer, buf_sz_bytes, buf>>
    /\ UNCHANGED notConsumer

\* a sub-consumer's task ends, normally or with an exception
ConsumeTaskFinish(i) ==
    /\ i \in 1..Len(consume_tasks)
    /\ consume_tasks[i].state = "running"
    /\ \E e \in BOOLEAN :
          consume_tasks' = [consume_tasks EXCEPT ![i].state = "finished", ![i].exc = e]
    /\ UNCHANGED <<byte_range_to_buffer_consumer, buf_sz_bytes, buf,
                   consumer_pc, consumer_error>>
    /\ UNCHANGED notConsumer

\* what consume_buffer does with the (done, pending) pair asyncio.wait returned:
\* nothing, the tasks' exceptions are not retrieved
AfterWaitAll(tasks) == [pc |-> "returned", error |-> "none"]

\* (mutant) the wait ends with the first task that is done
AnyCompleted(tasks) == \E i \in 1..Len(tasks) : tasks[i].state = "finished"

\* when asyncio.wait(tasks) ends: return_when defaults to ALL_COMPLETED
AllCompleted(tasks) == \A i \in 1..Len(tasks) : tasks[i].state = "finished"

\* await asyncio.wait(consume_tasks) returns once every task is done
ConsumeWaitAll ==
    /\ consumer_pc = "wait"
    /\ AllCompleted(consume_tasks)
    /\ consumer_pc' = AfterWaitAll(consume_tasks).pc
    /\ consumer_error' = AfterWaitAll(consume_tasks).error
    /\ UNCHANGED <<byte_range_to_buffer_consumer, buf_sz_bytes, buf, consume_tasks>>
    /\ UNCHANGED notConsumer

NextConsumer ==
    \/ ConsumeStart
    \/ \E i \in 1..MaxConsumers : ConsumeTaskFinish(i)
    \/ ConsumeWaitAll

SpecConsumer == InitConsumer /\ [][NextConsumer]_vars

\* ==================================================== claims on the consumer
\* C2: consume_buffer never returns normally when one of its sub-consumer
\* tasks raised.
C2_FailurePropagates ==
    consumer_pc = "returned" =>
        \A i \in 1..Len(consume_tasks) : ~consume_tasks[i].exc

\* C15: consume_buffer starts one task per sub-consumer, each for its own
\* sub-consumer, and has not returned while one of those tasks is unfinished,
\* whether the tasks succeed or fail.
C15_ReturnsAfterAllSubTasks ==
    /\ consumer_pc \in {"wait", "returned"} =>
          /\ Len(consume_tasks) = Len(byte_range_to_buffer_consumer)
          /\ \A i \in 1..Len(consume_tasks) :
                consume_tasks[i].buffer_consumer = byte_range_to_buffer_consumer[i][2]
    /\ consumer_pc = "returned" =>
          \A i \in 1..Len(consume_tasks) : consume_tasks[i].state # "running"

\* C15 witness: returned after two tasks, one that failed and one that succeeded
C15_Witness ==
    /\ consumer_pc = "returned"
    /\ Len(consume_tasks) = 2
    /\ consume_tasks[1].state = "finished" /\ consume_tasks[1].exc
    /\ consume_tasks[2].state = "finished" /\ ~consume_tasks[2].exc

\* ======================================================= batch_write_requests
\* ------------------------------------------------------------------- values
\* os.path.join("batched", str(uuid.uuid4())): the k-th name generated in a call;
\* uuid4 names are fresh, so they differ from each other and from every path
SlabLocationNames ==
    <<"batched/uuid-1", "batched/uuid-2", "batched/uuid-3", "batched/uuid-4",
      "batched/uuid-5", "batched/uuid-6", "batched/uuid-7", "batched/uuid-8">>
NewSlabLocation(k) == SlabLocationNames[k]

\* the paths of a call's write requests: the caller gives each request its own
PathNames == <<"dir/foo", "dir/bar", "dir/baz", "dir/qux", "dir/quux", "dir/corge">>

NoEntry == [type |-> "none", serializer |-> "none", nbytes |-> 0]

\* a buffer stager object: id is its identity; a TensorBufferStager holds the
\* entry of its tensor, whose exact size get_tensor_size_from_entry computes
BufferStagerObject(id, kind, n) ==
    [id |-> id,
     type |-> IF kind = "object" THEN "ObjectBufferStager" ELSE "TensorBufferStager",
     entry |-> IF kind = "object"
               THEN [type |-> "ObjectEntry", serializer |-> "torch_save", nbytes |-> n]
               ELSE [type |-> "TensorEntry",
                     serializer |-> IF kind = "tensor_bp" THEN "buffer_protocol"
                                    ELSE "torch_save",
                     nbytes |-> n],
     byte_range_to_buffer_stager |-> <<>>,
     slab_sz_bytes |-> 0]

WriteReq(path, buffer_stager) == [path |-> path, buffer_stager |-> buffer_stager]

\* is_batchable(entry)
is_batchable(entry) ==
    /\ entry.type = "TensorEntry"
    /\ entry.serializer = "buffer_protocol"

\* TensorIOPreparer.get_tensor_size_from_entry(entry): the exact serialized size
get_tensor_size_from_entry(entry) == entry.nbytes

\* BatchedBufferStager.Builder()
Builder == [byte_ranges |-> <<>>, buffer_stagers |-> <<>>]

\* Builder.add_buffer_stager
add_buffer_stager(builder, byte_range, buffer_stager) ==
    [byte_ranges |-> Append(builder.byte_ranges, byte_range),
     buffer_stagers |-> Append(builder.buffer_stagers, buffer_stager)]

\* Builder.build: the constructor applied to dict(zip(byte_ranges, buffer_stagers))
build(builder) ==
    LET mapping == DictZip(builder.byte_ranges, builder.buffer_stagers)
        r == BatchedBufferStager(mapping)
    IN [error |-> r.error,
        stager |-> [id |-> 0,
                    type |-> "BatchedBufferStager",
                    entry |-> NoEntry,
                    byte_range_to_buffer_stager |-> mapping,
                    slab_sz_bytes |-> r.slab_sz_bytes]]

\* (mutant) the size of a tensor is not compared with the threshold
IsStandaloneIgnoringSize(wr, threshold) ==
    \/ wr.buffer_stager.type # "TensorBufferStager"
    \/ ~is_batchable(wr.buffer_stager.entry)

\* the requests the first loop appends unchanged, without batching
IsStandalone(wr, threshold) ==
    \/ wr.buffer_stager.type # "TensorBufferStager"
    \/ ~is_batchable(wr.buffer_stager.entry)
    \/ get_tensor_size_from_entry(wr.buffer_stager.entry) >= threshold

\* (mutant) a slab is sealed only once it exceeds the threshold
SlabIsFullStrict(curr, threshold) == curr > threshold

\* "if curr_slab_sz_bytes >= slab_size_threshold_bytes" after an addition
SlabIsFull(curr, threshold) == curr >= threshold

\* (mutant) every tensor is given the range starting at 0
NextByteRangeFromZero(curr, sz) == <<0, sz>>

\* the byte range given to a tensor of sz bytes in the current slab
NextByteRange(curr, sz) == <<curr, curr + sz>>

\* (mutant) no builder is skipped
SlabIsEmptyNever(builder) == FALSE

\* "if len(slab.buffer_stagers) == 0"
SlabIsEmpty(builder) == Len(builder.buffer_stagers) = 0

\* "for slab_location, slab in zip(slab_locations, slabs)": the write requests
\* appended from slab i on, or the error of the first build that fails
RECURSIVE ConvertSlabsFrom(_, _, _, _)
ConvertSlabsFrom(locs, builders, i, reqs) ==
    IF i > Min(Len(locs), Len(builders)) THEN [error |-> "none", reqs |-> reqs]
    ELSE IF SlabIsEmpty(builders[i])
    THEN ConvertSlabsFrom(locs, builders, i + 1, reqs)
    ELSE LET b == build(builders[i])
         IN IF b.error # "none" THEN [error |-> b.error, reqs |-> reqs]
            ELSE ConvertSlabsFrom(locs, builders, i + 1,
                                  Append(reqs, WriteReq(locs[i], b.stager)))

\* (mutant) no copy: the local list is the caller's list
copy_alias(es, h) == [entries |-> es, heap |-> h]

\* copy.deepcopy(entries): every tensor entry object is copied to a new address
\* (its address plus the size of the heap), the copied list refers to the copies
copy_deepcopy(es, h) ==
    [entries |-> [i \in 1..Len(es) |->
                    [es[i] EXCEPT !.tensors = [j \in 1..Len(@) |-> @[j] + Len(h)]]],
     heap |-> h \o h]

\* the loop that fills location_to_entry: a TensorEntry by its own location, the
\* chunks and shards by their tensors' locations; other entries are skipped
RECURSIVE IndexTensors(_, _, _, _)
IndexTensors(d, tensors, h, j) ==
    IF j > Len(tensors) THEN d
    ELSE IndexTensors(DictPut(d, h[tensors[j]].location, tensors[j]), tensors, h, j + 1)

\* (mutant) every entry is indexed by its location, whatever its type
RECURSIVE IndexEntriesAnyType(_, _, _, _)
IndexEntriesAnyType(d, es, h, i) ==
    IF i > Len(es) THEN d
    ELSE IndexEntriesAnyType(IndexTensors(d, es[i].tensors, h, 1), es, h, i + 1)

RECURSIVE IndexEntries(_, _, _, _)
IndexEntries(d, es, h, i) ==
    IF i > Len(es) THEN d
    ELSE IF es[i].type \in {"TensorEntry", "ChunkedTensorEntry", "ShardedTensorEntry"}
    THEN IndexEntries(IndexTensors(d, es[i].tensors, h, 1), es, h, i + 1)
    ELSE IndexEntries(d, es, h, i + 1)

\* ------------------------------------------------------------------- inputs
RECURSIVE SeqsUpTo(_, _)
SeqsUpTo(S, n) == IF n = 0 THEN {<<>>} ELSE SeqsUpTo(S, n - 1) \cup [1..n -> S]

\* where the caller's entries hold the entry with a request's path: nowhere, in
\* a top-level TensorEntry, in a top-level entry of another type, in a chunk of
\* a ChunkedTensorEntry or in a shard of a ShardedTensorEntry
Placements == {"absent", "tensor", "object", "chunk", "shard"}

\* a request as the caller prepared it: what stages it, its exact size and the
\* placement of its entry; the i-th request of a call has the path PathNames[i]
GeneralShapes ==
    {[kind |-> "tensor_bp", nbytes |-> n, placement |-> "tensor"] : n \in 0..MaxSize}
    \cup {[kind |-> "tensor_pickle", nbytes |-> 1, placement |-> "tensor"],
          [kind |-> "object", nbytes |-> 1, placement |-> "object"]}

NestedShapes ==
    {[kind |-> k, nbytes |-> 1, placement |-> pl] :
        k \in {"tensor_bp", "object"}, pl \in Placements}

UniformShapes(n, sz) ==
    [i \in 1..n |-> [kind |-> "tensor_bp", nbytes |-> sz, placement |-> "tensor"]]

UniformSizes == (1..MaxUniformSize) \cup {30}
UniformThresholds == (2..(MaxUniformSize + 2)) \cup {50}

WriteInputs ==
    {[shapes |-> sh, threshold |-> t] :
        sh \in SeqsUpTo(GeneralShapes, MaxReqs), t \in 1..(MaxSize + 1)}
    \cup {[shapes |-> sh, threshold |-> 2] : sh \in SeqsUpTo(NestedShapes, MaxNested)}
    \cup {[shapes |-> UniformShapes(x[1], x[2]), threshold |-> x[3]] :
            x \in {y \in (1..MaxUniform) \X UniformSizes \X UniformThresholds :
                      y[2] < y[3]}}

\* the caller's tensor entry objects: one per request whose entry is supplied
Present(shapes) == {i \in 1..Len(shapes) : shapes[i].placement # "absent"}
Addr(shapes, i) == Cardinality({j \in Present(shapes) : j <= i})
PlacedAt(shapes, pl) == {i \in 1..Len(shapes) : shapes[i].placement = pl}

RECURSIVE AddrsFrom(_, _, _)
AddrsFrom(shapes, pl, i) ==
    IF i > Len(shapes) THEN <<>>
    ELSE (IF shapes[i].placement = pl THEN <<Addr(shapes, i)>> ELSE <<>>)
         \o AddrsFrom(shapes, pl, i + 1)

CallerHeap(shapes) ==
    [a \in 1..Cardinality(Present(shapes)) |->
        LET i == CHOOSE j \in Present(shapes) : Addr(shapes, j) = a
        IN [location |-> PathNames[i], byte_range |-> None]]

\* the caller's entries: a top-level entry per "tensor" or "object" request, one chunked entry
\* holding the "chunk" requests' tensors and one sharded entry holding the
\* "shard" requests' tensors, each where its first request stands
RECURSIVE CallerEntriesFrom(_, _)
CallerEntriesFrom(shapes, i) ==
    IF i > Len(shapes) THEN <<>>
    ELSE LET sh == shapes[i]
             first == \A j \in PlacedAt(shapes, sh.placement) : i <= j
             e == IF sh.placement \in {"tensor", "object"}
                  THEN <<[type |-> IF sh.placement = "object" THEN "ObjectEntry"
                                   ELSE "TensorEntry",
                          tensors |-> <<Addr(shapes, i)>>]>>
                  ELSE IF sh.placement = "chunk" /\ first
                  THEN <<[type |-> "ChunkedTensorEntry",
                          tensors |-> AddrsFrom(shapes, "chunk", 1)]>>
                  ELSE IF sh.placement = "shard" /\ first
                  THEN <<[type |-> "ShardedTensorEntry",
                          tensors |-> AddrsFrom(shapes, "shard", 1)]>>
                  ELSE <<>>
         IN e \o CallerEntriesFrom(shapes, i + 1)

CallerWriteReqs(shapes) ==
    [i \in 1..Len(shapes) |->
        WriteReq(PathNames[i],
                 BufferStagerObject(i, shapes[i].kind, shapes[i].nbytes))]

InitWrite ==
    /\ StagerIdle
    /\ ConsumerIdle
    /\ ReadIdle
    /\ \E inp \in WriteInputs :
          /\ write_reqs = CallerWriteReqs(inp.shapes)
          /\ entries = CallerEntriesFrom(inp.shapes, 1)
          /\ heap = CallerHeap(inp.shapes)
          /\ caller_heap = CallerHeap(inp.shapes)
          /\ slab_size_threshold_bytes = inp.threshold
    /\ write_pc = "start"
    /\ write_error = "none"
    /\ wr_index = 0
    /\ batched_write_reqs = <<>>
    /\ slab_locations = <<>>
    /\ slabs = <<>>
    /\ curr_slab_sz_bytes = 0
    /\ relocation = <<>>
    /\ new_entries = <<>>
    /\ location_to_entry = <<>>
    /\ reloc_index = 0
    /\ write_ret = None

\* ------------------------------------------------------------------ the call
\* the statements before the first loop (the caller passes a positive
\* threshold, so "or get_slab_size_threshold_bytes()" keeps it)
BatchWriteStart ==
    /\ write_pc = "start"
    /\ batched_write_reqs' = <<>>
    /\ slab_locations' = <<NewSlabLocation(1)>>
    /\ slabs' = <<Builder>>
    /\ curr_slab_sz_bytes' = 0
    /\ relocation' = <<>>
    /\ wr_index' = 1
    /\ write_pc' = IF Len(write_reqs) = 0 THEN "convert" ELSE "for_wr"
    /\ UNCHANGED <<entries, heap, write_reqs, slab_size_threshold_bytes,
                   write_error, new_entries, location_to_entry, reloc_index,
                   write_ret, caller_heap>>
    /\ UNCHANGED notWrite

\* (mutant) the location recorded for a request is that of the first slab
FirstSlabLocation(locs) == locs[1]

\* slab_locations[-1]
CurrentSlabLocation(locs) == locs[Len(locs)]

\* one iteration of "for wr in write_reqs"
GroupWriteReq ==
    /\ write_pc = "for_wr"
    /\ LET wr == write_reqs[wr_index]
       IN IF IsStandalone(wr, slab_size_threshold_bytes)
          THEN /\ batched_write_reqs' = Append(batched_write_reqs, wr)
               /\ UNCHANGED <<slab_locations, slabs, curr_slab_sz_bytes, relocation>>
          ELSE LET tensor_sz_bytes == get_tensor_size_from_entry(wr.buffer_stager.entry)
                   byte_range == NextByteRange(curr_slab_sz_bytes, tensor_sz_bytes)
                   curr == curr_slab_sz_bytes + tensor_sz_bytes
                   added == [slabs EXCEPT ![Len(slabs)] =
                                add_buffer_stager(@, byte_range, wr.buffer_stager)]
               IN /\ relocation' = DictPut(relocation, wr.path,
                                           <<CurrentSlabLocation(slab_locations),
                                             byte_range[1], byte_range[2]>>)
                  /\ IF SlabIsFull(curr, slab_size_threshold_bytes)
                     THEN /\ slabs' = Append(added, Builder)
                          /\ slab_locations' =
                                Append(slab_locations,
                                       NewSlabLocation(Len(slab_locations) + 1))
                          /\ curr_slab_sz_bytes' = 0
                     ELSE /\ slabs' = added
                          /\ slab_locations' = slab_locations
                          /\ curr_slab_sz_bytes' = curr
                  /\ batched_write_reqs' = batched_write_reqs
    /\ wr_index' = wr_index + 1
    /\ write_pc' = IF wr_index' > Len(write_reqs) THEN "convert" ELSE "for_wr"
    /\ UNCHANGED <<entries, heap, write_reqs, slab_size_threshold_bytes,
                   write_error, new_entries, location_to_entry, reloc_index,
                   write_ret, caller_heap>>
    /\ UNCHANGED notWrite

\* the loop that converts each non-empty slab to a batched write request
ConvertSlabs ==
    /\ write_pc = "convert"
    /\ LET r == ConvertSlabsFrom(slab_locations, slabs, 1, batched_write_reqs)
       IN /\ batched_write_reqs' = r.reqs
          /\ write_error' = r.error
          /\ write_pc' = IF r.error = "none" THEN "copy" ELSE "raised"
    /\ UNCHANGED <<entries, heap, write_reqs, slab_size_threshold_bytes, wr_index,
                   slab_locations, slabs, curr_slab_sz_bytes, relocation,
                   new_entries, location_to_entry, reloc_index, write_ret,
                   caller_heap>>
    /\ UNCHANGED notWrite

\* "return entries, batched_write_reqs"
ReturnValue(es, reqs) == [entries |-> es, write_reqs |-> reqs]

\* entries = copy.deepcopy(entries) and the loop that fills location_to_entry;
\* with an empty relocation the update loop is skipped and the call returns
CopyAndIndexEntries ==
    /\ write_pc = "copy"
    /\ LET c == copy_deepcopy(entries, heap)
       IN /\ new_entries' = c.entries
          /\ heap' = c.heap
          /\ location_to_entry' = IndexEntries(<<>>, c.entries, c.heap, 1)
          /\ IF Len(relocation) = 0
             THEN /\ write_pc' = "returned"
                  /\ write_ret' = ReturnValue(c.entries, batched_write_reqs)
             ELSE /\ write_pc' = "update"
                  /\ write_ret' = write_ret
    /\ reloc_index' = 1
    /\ UNCHANGED <<entries, write_reqs, slab_size_threshold_bytes, write_error,
                   wr_index, batched_write_reqs, slab_locations, slabs,
                   curr_slab_sz_bytes, relocation, caller_heap>>
    /\ UNCHANGED notWrite

\* the entry object at address a with its location and byte range rewritten
Relocate(h, a, new_location, lower, upper) ==
    [h EXCEPT ![a] = [location |-> new_location, byte_range |-> <<lower, upper>>]]

\* one iteration of "for location, (new_location, lower, upper) in relocation.items()"
UpdateEntry ==
    /\ write_pc = "update"
    /\ LET location == relocation[reloc_index][1]
           new == relocation[reloc_index][2]
       IN IF ~DictHas(location_to_entry, location)
          THEN /\ write_pc' = "raised"
               /\ write_error' = "RuntimeError"
               /\ UNCHANGED <<heap, write_ret, reloc_index>>
          ELSE /\ heap' = Relocate(heap, DictGet(location_to_entry, location),
                                   new[1], new[2], new[3])
               /\ reloc_index' = reloc_index + 1
               /\ write_error' = write_error
               /\ IF reloc_index' > Len(relocation)
                  THEN /\ write_pc' = "returned"
                       /\ write_ret' = ReturnValue(new_entries, batched_write_reqs)
                  ELSE /\ write_pc' = "update"
                       /\ write_ret' = write_ret
    /\ UNCHANGED <<entries, write_reqs, slab_size_threshold_bytes, wr_index,
                   batched_write_reqs, slab_locations, slabs, curr_slab_sz_bytes,
                   relocation, new_entries, location_to_entry, caller_heap>>
    /\ UNCHANGED notWrite

NextWrite ==
    \/ BatchWriteStart
    \/ GroupWriteReq
    \/ ConvertSlabs
    \/ CopyAndIndexEntries
    \/ UpdateEntry

SpecWrite == InitWrite /\ [][NextWrite]_vars

\* ============================================== claims on batch_write_requests
\* the words of the claims, stated on the caller's requests
Eligible(wr) ==
    /\ wr.buffer_stager.type = "TensorBufferStager"
    /\ wr.buffer_stager.entry.type = "TensorEntry"
    /\ wr.buffer_stager.entry.serializer = "buffer_protocol"
PayloadSize(wr) == wr.buffer_stager.entry.nbytes
BelowThreshold(wr) ==
    PayloadSize(wr) >= 0 /\ PayloadSize(wr) < slab_size_threshold_bytes
BatchedInputs ==
    {i \in 1..Len(write_reqs) : Eligible(write_reqs[i]) /\ BelowThreshold(write_reqs[i])}
StandaloneInputs == (1..Len(write_reqs)) \ BatchedInputs
PathIsUnique(i) ==
    \A k \in 1..Len(write_reqs) : write_reqs[k].path = write_reqs[i].path => k = i

IsSlabReq(wr) == wr.buffer_stager.type = "BatchedBufferStager"
SlabReqs(reqs) == {j \in 1..Len(reqs) : IsSlabReq(reqs[j])}

\* the pairs <<a, b>>: a caller's entry object and the object returned in its place
ReturnedPairs ==
    UNION {{<<entries[i].tensors[j], write_ret.entries[i].tensors[j]>> :
                j \in 1..Len(entries[i].tensors)} : i \in 1..Len(entries)}

\* the returned entry objects whose location was path before the call
ReturnedEntriesAt(path) ==
    {p[2] : p \in {q \in ReturnedPairs : caller_heap[q[1]].location = path}}

\* C3: after a successful call, for every eligible request of size s below the
\* threshold (its path unique among the inputs), exactly one emitted slab write
\* request has the path that is the entry's new location, and that slab's dict
\* maps the entry's new byte range to the request's own producer, the range
\* being s bytes long.
C3_MetadataMatchesSlabLayout ==
    write_pc = "returned" =>
        \A i \in BatchedInputs :
            PathIsUnique(i) =>
                \A b \in ReturnedEntriesAt(write_reqs[i].path) :
                    LET e == heap[b]
                        out == write_ret.write_reqs
                        J == {j \in SlabReqs(out) : out[j].path = e.location}
                    IN /\ Cardinality(J) = 1
                       /\ Len(e.byte_range) = 2
                       /\ e.byte_range[2] - e.byte_range[1] = PayloadSize(write_reqs[i])
                       /\ \A j \in J :
                            LET m == out[j].buffer_stager.byte_range_to_buffer_stager
                            IN /\ DictHas(m, e.byte_range)
                               /\ DictGet(m, e.byte_range) = write_reqs[i].buffer_stager

\* the call of the docstring: foo, bar, baz, qux of 30 units each, threshold 50
DocstringCall ==
    /\ write_reqs = CallerWriteReqs(UniformShapes(4, 30))
    /\ slab_size_threshold_bytes = 50

\* C5: on four eligible requests foo, bar, baz, qux of 30 units each and a
\* threshold of 50 units the call emits exactly two slab write requests with
\* distinct locations and no standalone request; foo and bar are relocated to
\* the first slab at [0, 30] and [30, 60], baz and qux to the second at [0, 30]
\* and [30, 60].
C5_DocstringExample ==
    DocstringCall =>
        /\ write_pc # "raised"
        /\ write_pc = "returned" =>
            LET out == write_ret.write_reqs
                ent(i) == heap[write_ret.entries[i].tensors[1]]
                producers(j) == DictValues(out[j].buffer_stager.byte_range_to_buffer_stager)
            IN /\ Len(out) = 2
               /\ IsSlabReq(out[1]) /\ IsSlabReq(out[2])
               /\ out[1].path # out[2].path
               /\ ent(1) = [location |-> out[1].path, byte_range |-> <<0, 30>>]
               /\ ent(2) = [location |-> out[1].path, byte_range |-> <<30, 60>>]
               /\ ent(3) = [location |-> out[2].path, byte_range |-> <<0, 30>>]
               /\ ent(4) = [location |-> out[2].path, byte_range |-> <<30, 60>>]
               /\ producers(1) = <<write_reqs[1].buffer_stager, write_reqs[2].buffer_stager>>
               /\ producers(2) = <<write_reqs[3].buffer_stager, write_reqs[4].buffer_stager>>

C5_Witness ==
    /\ DocstringCall
    /\ write_pc = "returned"
    /\ Len(write_ret.write_reqs) = 2

\* N >= 1 eligible requests, all of the same size S with 0 < S < T
UniformCall ==
    /\ Len(write_reqs) >= 1
    /\ \A i \in 1..Len(write_reqs) :
          /\ Eligible(write_reqs[i])
          /\ PayloadSize(write_reqs[i]) = PayloadSize(write_reqs[1])
    /\ PayloadSize(write_reqs[1]) > 0
    /\ PayloadSize(write_reqs[1]) < slab_size_threshold_bytes

CeilDiv(a, b) == (a + b - 1) \div b
NumSlabs == Cardinality(SlabReqs(write_ret.write_reqs))

\* C6 as stated: N eligible requests of the same size S, 0 < S < T, are emitted
\* as ceil(N*S / (floor(T/S)*S)) non-empty slabs.
C6_SpecFormula ==
    (write_pc = "returned" /\ UniformCall) =>
        LET N == Len(write_reqs)
            S == PayloadSize(write_reqs[1])
            T == slab_size_threshold_bytes
        IN NumSlabs = CeilDiv(N * S, (T \div S) * S)

\* C6 as amended: N eligible requests of the same size S, 0 < S < T, are
\* emitted as ceil(N / ceil(T/S)) non-empty slabs: a slab is sealed by the
\* request that brings it to the threshold or beyond, after ceil(T/S) requests.
C6_SlabCount ==
    (write_pc = "returned" /\ UniformCall) =>
        LET N == Len(write_reqs)
            S == PayloadSize(write_reqs[1])
            T == slab_size_threshold_bytes
        IN NumSlabs = CeilDiv(N, CeilDiv(T, S))

C6_Witness ==
    /\ write_pc = "returned"
    /\ UniformCall
    /\ Len(write_reqs) = 3
    /\ PayloadSize(write_reqs[1]) = 2
    /\ slab_size_threshold_bytes = 3
    /\ NumSlabs = 2

\* C7: a request whose producer is not a batch-eligible tensor stager, or whose
\* size is at or above the threshold, is in the output exactly once and
\* unchanged, is in no slab, and its entry is not relocated.
C7_StandalonePassthrough ==
    write_pc = "returned" =>
        \A i \in StandaloneInputs :
            LET out == write_ret.write_reqs
                wr == write_reqs[i]
            IN /\ Cardinality({j \in 1..Len(out) :
                                  out[j].buffer_stager.id = wr.buffer_stager.id}) = 1
               /\ \A j \in 1..Len(out) :
                     out[j].buffer_stager.id = wr.buffer_stager.id => out[j] = wr
               /\ \A j \in SlabReqs(out) :
                     \A k \in 1..Len(out[j].buffer_stager.byte_range_to_buffer_stager) :
                        out[j].buffer_stager.byte_range_to_buffer_stager[k][2].id
                            # wr.buffer_stager.id
               /\ ~DictHas(relocation, wr.path)
               /\ \A p \in ReturnedPairs :
                     caller_heap[p[1]].location = wr.path => heap[p[2]] = caller_heap[p[1]]

C7_Witness ==
    /\ write_pc = "returned"
    /\ \E i, k, n \in StandaloneInputs :
          /\ ~Eligible(write_reqs[i])
          /\ write_reqs[k].buffer_stager.type = "TensorBufferStager"
          /\ write_reqs[k].buffer_stager.entry.serializer = "torch_save"
          /\ Eligible(write_reqs[n])
          /\ PayloadSize(write_reqs[n]) >= slab_size_threshold_bytes
    /\ BatchedInputs # {}

\* C8: the caller's entry objects keep their location and byte range throughout
\* the call, however it ends; and of the returned entries, each whose original
\* location is not the path of a batched request has its original location and
\* byte range.
C8_CallerEntriesUntouched ==
    /\ \A a \in DOMAIN caller_heap : heap[a] = caller_heap[a]
    /\ write_pc = "returned" =>
          /\ Len(write_ret.entries) = Len(entries)
          /\ \A i \in 1..Len(entries) :
                /\ write_ret.entries[i].type = entries[i].type
                /\ Len(write_ret.entries[i].tensors) = Len(entries[i].tensors)
          /\ \A p \in ReturnedPairs :
                caller_heap[p[1]].location \notin {write_reqs[i].path : i \in BatchedInputs}
                    => heap[p[2]] = caller_heap[p[1]]

C8_Witness ==
    /\ write_pc = "returned"
    /\ \E i \in 1..Len(entries) : entries[i].type = "ChunkedTensorEntry"
    /\ \E p \in ReturnedPairs : heap[p[2]] # caller_heap[p[1]]
    /\ \E p \in ReturnedPairs : heap[p[2]] = caller_heap[p[1]]

\* the locations of the supplied top-level tensor entries, chunks and shards
SuppliedTensorLocations ==
    UNION {{caller_heap[entries[i].tensors[j]].location : j \in 1..Len(entries[i].tensors)} :
            i \in {k \in 1..Len(entries) :
                     entries[k].type \in {"TensorEntry", "ChunkedTensorEntry",
                                          "ShardedTensorEntry"}}}

\* C9: when a request is batched and no supplied top-level tensor entry, chunk
\* or shard has its path as location, the call ends with the referential
\* integrity error and returns nothing.
C9_MissingEntryFails ==
    (/\ write_pc \in {"returned", "raised"}
     /\ \E i \in BatchedInputs : write_reqs[i].path \notin SuppliedTensorLocations)
        => /\ write_pc = "raised"
           /\ write_error = "RuntimeError"
           /\ write_ret = None

C9_Witness ==
    /\ write_pc = "raised"
    /\ write_error = "RuntimeError"
    /\ write_ret = None
    /\ reloc_index = 2
    /\ \E i \in 1..Len(entries) : entries[i].type = "ObjectEntry"

\* the sum of the sizes of the first n sub-ranges of a slab's dict
RECURSIVE SumRangeSizes(_, _)
SumRangeSizes(mapping, n) ==
    IF n = 0 THEN 0
    ELSE (mapping[n][1][2] - mapping[n][1][1]) + SumRangeSizes(mapping, n - 1)

\* C17: in every emitted slab the sizes of the sub-ranges other than the last
\* one added sum to less than the threshold T, so the slab's total size is
\* below 2*T; and every emitted slab other than the last one created has a
\* total size of at least T.
C17_SlabSizeBounds ==
    write_pc = "returned" =>
        LET out == write_ret.write_reqs
            T == slab_size_threshold_bytes
        IN \A j \in SlabReqs(out) :
              LET m == out[j].buffer_stager.byte_range_to_buffer_stager
                  total == SumRangeSizes(m, Len(m))
              IN /\ Len(m) >= 1
                 /\ SumRangeSizes(m, Len(m) - 1) < T
                 /\ total < 2 * T
                 /\ out[j].buffer_stager.slab_sz_bytes = total
                 /\ out[j].path # slab_locations[Len(slab_locations)] => total >= T

\* C17 witness: threshold 3; a first slab of 2 + 2 bytes, over the threshold,
\* and a last slab of 1 byte, below it
C17_Witness ==
    /\ write_pc = "returned"
    /\ slab_size_threshold_bytes = 3
    /\ Cardinality(SlabReqs(write_ret.write_reqs)) = 2
    /\ \E j, k \in SlabReqs(write_ret.write_reqs) :
          /\ j < k
          /\ write_ret.write_reqs[j].buffer_stager.slab_sz_bytes = 4
          /\ write_ret.write_reqs[k].buffer_stager.slab_sz_bytes = 1
          /\ write_ret.write_reqs[k].path = slab_locations[Len(slab_locations)]

\* the batched requests the first loop has gone through, in input order
Packed == {i \in BatchedInputs : DictHas(relocation, write_reqs[i].path)}

\* where request i was packed: the position of its slab in the order the slabs
\* were created, and its byte range in that slab
SlabOf(i) ==
    LET loc == DictGet(relocation, write_reqs[i].path)[1]
    IN CHOOSE n \in 1..Len(slab_locations) : slab_locations[n] = loc
LowerOf(i) == DictGet(relocation, write_reqs[i].path)[2]
UpperOf(i) == DictGet(relocation, write_reqs[i].path)[3]

\* C18: packing follows the input order: when eligible below-threshold request
\* a precedes b in the input, a's slab was created no later than b's, and in
\* the same slab a's upper bound is at most b's lower bound; b is never placed
\* into the slab that a sealed by bringing it to the threshold, nor an earlier one.
C18_PackedInInputOrder ==
    \A a, b \in Packed :
        a < b =>
            /\ SlabOf(a) <= SlabOf(b)
            /\ SlabOf(a) = SlabOf(b) => UpperOf(a) <= LowerOf(b)
            /\ UpperOf(a) >= slab_size_threshold_bytes => SlabOf(a) < SlabOf(b)

\* C18 witness: three batched requests in two slabs, with a standalone
\* request between the two of the first slab
C18_Witness ==
    /\ write_pc = "returned"
    /\ Cardinality(Packed) = 3
    /\ StandaloneInputs = {2}
    /\ SlabOf(1) = 1 /\ SlabOf(3) = 1 /\ SlabOf(4) = 2
    /\ LowerOf(3) = UpperOf(1) /\ UpperOf(1) > 0

\* the slabs that were given at least one request
UsedSlabLocations == {relocation[k][2][1] : k \in 1..Len(relocation)}

\* C19: a slab write request is emitted only for a slab holding at least one
\* sub-producer: converting the slabs never fails on an empty builder and
\* emits nothing for it, be it the fresh builder opened when the last batched
\* request sealed its slab or the only builder of a call that batches nothing;
\* the output has one request per standalone input and one per non-empty slab.
C19_NoEmptySlabEmitted ==
    /\ write_pc = "raised" => write_error = "RuntimeError"
    /\ write_pc \in {"copy", "update", "returned", "raised"} =>
          LET out == batched_write_reqs
          IN /\ \A j \in SlabReqs(out) :
                   /\ Len(out[j].buffer_stager.byte_range_to_buffer_stager) >= 1
                   /\ out[j].path \in UsedSlabLocations
             /\ Cardinality(SlabReqs(out)) = Cardinality(UsedSlabLocations)
             /\ BatchedInputs = {} => SlabReqs(out) = {}
             /\ Len(out) = Cardinality(StandaloneInputs) + Cardinality(UsedSlabLocations)
    /\ write_pc = "returned" => write_ret.write_reqs = batched_write_reqs

\* C19 witness: the last request sealed the first slab, so the second builder
\* is empty; one slab request and one standalone request are returned
C19_Witness ==
    /\ write_pc = "returned"
    /\ Len(slabs) = 2
    /\ Len(slabs[2].buffer_stagers) = 0
    /\ Len(write_reqs) \in BatchedInputs
    /\ Cardinality(StandaloneInputs) = 1
    /\ Len(write_ret.write_reqs) = 2

\* ======================================================== batch_read_requests
\* a buffer consumer object: id is its identity (0 for a BatchedBufferConsumer
\* made by the call)
BufferConsumerObject(id) ==
    [id |-> id, type |-> "BufferConsumer",
     byte_range_to_buffer_consumer |-> <<>>, buf_sz_bytes |-> 0]

\* BatchedBufferConsumer.__init__
BatchedBufferConsumer(mapping, sz) ==
    [id |-> 0, type |-> "BatchedBufferConsumer",
     byte_range_to_buffer_consumer |-> mapping, buf_sz_bytes |-> sz]

ReadReq(path, buffer_consumer, byte_range) ==
    [path |-> path, buffer_consumer |-> buffer_consumer, byte_range |-> byte_range]

ReadPaths == {"f", "g"}
ReadOffsets == {0, 100, 200}
ReadRanges == {r \in ReadOffsets \X ReadOffsets : r[1] <= r[2]} \cup {None}

\* the requests of a call: each with its own consumer
CallerReadReqs(shapes) ==
    [i \in 1..Len(shapes) |->
        ReadReq(shapes[i][1], BufferConsumerObject(i), shapes[i][2])]

InitRead ==
    /\ StagerIdle
    /\ ConsumerIdle
    /\ WriteIdle
    /\ read_reqs \in {CallerReadReqs(sh) : sh \in SeqsUpTo(ReadPaths \X ReadRanges, MaxReads)}
    /\ read_pc = "start"
    /\ rr_index = 0
    /\ batched_read_reqs = <<>>
    /\ location_to_ranged_read_reqs = <<>>
    /\ location_to_byte_range = <<>>
    /\ loc_index = 0

\* the statements before the first loop
BatchReadStart ==
    /\ read_pc = "start"
    /\ batched_read_reqs' = <<>>
    /\ location_to_ranged_read_reqs' = <<>>
    /\ location_to_byte_range' = <<>>
    /\ rr_index' = 1
    /\ loc_index' = 1
    /\ read_pc' = IF Len(read_reqs) = 0 THEN "returned" ELSE "for_rr"
    /\ UNCHANGED read_reqs
    /\ UNCHANGED notRead

\* (mutant) the covering range is the range of the last request
MergeByteRangeLast(old, byte_range) == byte_range

\* location_to_byte_range[rr.path] after a request with byte_range
MergeByteRange(old, byte_range) ==
    <<Min(old[1], byte_range[1]), Max(old[2], byte_range[2])>>

\* where the call is once the first loop has ended: the second loop runs over
\* the locations of the ranged requests, if any
AfterFirstLoop(by_location) == IF Len(by_location) = 0 THEN "returned" ELSE "for_location"

\* (mutant) a whole-object request is dropped when the output already has a
\* request for its location
AppendWholeOncePerLocation(reqs, rr) ==
    IF \E j \in 1..Len(reqs) : reqs[j].path = rr.path THEN reqs ELSE Append(reqs, rr)

\* batched_read_reqs.append(rr) for a request with byte_range None
AppendWhole(reqs, rr) == Append(reqs, rr)

\* one iteration of "for rr in read_reqs"
GroupReadReq ==
    /\ read_pc = "for_rr"
    /\ LET rr == read_reqs[rr_index]
           byte_range == rr.byte_range
       IN IF byte_range = None
          THEN /\ batched_read_reqs' = AppendWhole(batched_read_reqs, rr)
               /\ UNCHANGED <<location_to_ranged_read_reqs, location_to_byte_range>>
          ELSE LET rrs == IF DictHas(location_to_ranged_read_reqs, rr.path)
                          THEN DictGet(location_to_ranged_read_reqs, rr.path)
                          ELSE <<>>
                   old == IF DictHas(location_to_byte_range, rr.path)
                          THEN DictGet(location_to_byte_range, rr.path)
                          ELSE byte_range
               IN /\ location_to_ranged_read_reqs' =
                        DictPut(location_to_ranged_read_reqs, rr.path, Append(rrs, rr))
                  /\ location_to_byte_range' =
                        DictPut(location_to_byte_range, rr.path,
                                MergeByteRange(old, byte_range))
                  /\ batched_read_reqs' = batched_read_reqs
    /\ rr_index' = rr_index + 1
    /\ read_pc' = IF rr_index' > Len(read_reqs)
                  THEN AfterFirstLoop(location_to_ranged_read_reqs')
                  ELSE "for_rr"
    /\ UNCHANGED <<read_reqs, loc_index>>
    /\ UNCHANGED notRead

\* (mutant) the byte range within the object is used as it is
unadjusted_byte_range(byte_range, lower_bound) == byte_range

\* the byte range within the buffer consumed by the BatchedBufferConsumer
adjusted_byte_range(byte_range, lower_bound) ==
    <<byte_range[1] - lower_bound, byte_range[2] - lower_bound>>

\* the inner loop "for rr in rrs": the dict of adjusted byte ranges, a later
\* request with an equal adjusted range replacing the consumer
RECURSIVE AdjustedFrom(_, _, _, _)
AdjustedFrom(d, rrs, lower_bound, i) ==
    IF i > Len(rrs) THEN d
    ELSE AdjustedFrom(DictPut(d, adjusted_byte_range(rrs[i].byte_range, lower_bound),
                              rrs[i].buffer_consumer),
                      rrs, lower_bound, i + 1)

\* the merged request of a location; byte_range in the buf_sz_bytes argument is
\* the variable of the inner loop after the loop: the range of the last of rrs
MergedReadReq(location, rrs, covering) ==
    LET lower_bound == covering[1]
        byte_range == rrs[Len(rrs)].byte_range
    IN ReadReq(location,
               BatchedBufferConsumer(AdjustedFrom(<<>>, rrs, lower_bound, 1),
                                     byte_range[2] - byte_range[1]),
               covering)

\* one iteration of "for location, rrs in location_to_ranged_read_reqs.items()"
MergeLocation ==
    /\ read_pc = "for_location"
    /\ LET location == location_to_ranged_read_reqs[loc_index][1]
           rrs == location_to_ranged_read_reqs[loc_index][2]
       IN batched_read_reqs' =
            Append(batched_read_reqs,
                   MergedReadReq(location, rrs,
                                 DictGet(location_to_byte_range, location)))
    /\ loc_index' = loc_index + 1
    /\ read_pc' = IF loc_index' > Len(location_to_ranged_read_reqs)
                  THEN "returned" ELSE "for_location"
    /\ UNCHANGED <<read_reqs, rr_index, location_to_ranged_read_reqs,
                   location_to_byte_range>>
    /\ UNCHANGED notRead

NextRead ==
    \/ BatchReadStart
    \/ GroupReadReq
    \/ MergeLocation

SpecRead == InitRead /\ [][NextRead]_vars

\* =============================================== claims on batch_read_requests
RangedInputs(location) ==
    {i \in 1..Len(read_reqs) :
        read_reqs[i].path = location /\ read_reqs[i].byte_range # None}
RangedLocations == {read_reqs[i].path : i \in {k \in 1..Len(read_reqs) : read_reqs[k].byte_range # None}}
MergedReqs ==
    {j \in 1..Len(batched_read_reqs) :
        batched_read_reqs[j].buffer_consumer.type = "BatchedBufferConsumer"}
MinLower(location) ==
    CHOOSE x \in {read_reqs[i].byte_range[1] : i \in RangedInputs(location)} :
        \A i \in RangedInputs(location) : x <= read_reqs[i].byte_range[1]
MaxUpper(location) ==
    CHOOSE x \in {read_reqs[i].byte_range[2] : i \in RangedInputs(location)} :
        \A i \in RangedInputs(location) : x >= read_reqs[i].byte_range[2]

\* C10: the call emits exactly one merged request per location that has a
\* ranged input request; its path is the location and its byte range is (the
\* least lower bound, the greatest upper bound) of the location's ranged requests.
C10_OneMergedReqPerLocation ==
    read_pc = "returned" =>
        /\ \A j \in MergedReqs : batched_read_reqs[j].path \in RangedLocations
        /\ \A location \in RangedLocations :
              LET J == {j \in MergedReqs : batched_read_reqs[j].path = location}
              IN /\ Cardinality(J) = 1
                 /\ \A j \in J :
                       batched_read_reqs[j].byte_range =
                           <<MinLower(location), MaxUpper(location)>>

\* C10 witness: [0, 100) and [100, 200) on "f" merged into one request [0, 200)
C10_Witness ==
    /\ read_pc = "returned"
    /\ read_reqs = CallerReadReqs(<<<<"f", <<0, 100>>>>, <<"f", <<100, 200>>>>>>)
    /\ Len(batched_read_reqs) = 1
    /\ batched_read_reqs[1].path = "f"
    /\ batched_read_reqs[1].byte_range = <<0, 200>>

\* the sub-consumer invocations made when the merged request req is executed:
\* the I/O layer reads the bytes of req's byte range and hands them to the
\* aggregating consumer, which starts one task per item of its dict
InvocationsOf(req) ==
    CreateConsumeTasks(req.buffer_consumer.byte_range_to_buffer_consumer,
                       ObjectBytes(req.byte_range[1], req.byte_range[2]))

\* the invocations of the consumer with identity id among those of req
InvocationsOfConsumer(req, id) ==
    {k \in 1..Len(InvocationsOf(req)) : InvocationsOf(req)[k].buffer_consumer.id = id}

\* C11: for every ranged input request r = [lo, hi) at location L, executing
\* the merged request emitted for L with the bytes of its covering range
\* invokes r's own consumer exactly once, with exactly the bytes [lo, hi) of
\* the object, whatever the multiset of ranged requests on L.
C11_EachConsumerGetsItsBytes ==
    read_pc = "returned" =>
        \A i \in 1..Len(read_reqs) :
            read_reqs[i].byte_range # None =>
                \A j \in MergedReqs :
                    batched_read_reqs[j].path = read_reqs[i].path =>
                        LET req == batched_read_reqs[j]
                            K == InvocationsOfConsumer(req, read_reqs[i].buffer_consumer.id)
                        IN /\ Cardinality(K) = 1
                           /\ \A k \in K :
                                InvocationsOf(req)[k].arg =
                                    ObjectBytes(read_reqs[i].byte_range[1],
                                                read_reqs[i].byte_range[2])

WholeInputs == {i \in 1..Len(read_reqs) : read_reqs[i].byte_range = None}

\* C12: every input request with byte_range None is in the output exactly once
\* and unchanged (same path, same consumer, byte_range None), and its consumer
\* is in no merged request, also when ranged requests or other whole-object
\* requests have the same location.
C12_WholeObjectPassthrough ==
    read_pc = "returned" =>
        \A i \in WholeInputs :
            LET id == read_reqs[i].buffer_consumer.id
                J == {j \in 1..Len(batched_read_reqs) :
                        batched_read_reqs[j].buffer_consumer.id = id}
            IN /\ Cardinality(J) = 1
               /\ \A j \in J : batched_read_reqs[j] = read_reqs[i]
               /\ \A j \in MergedReqs :
                     \A k \in 1..Len(batched_read_reqs[j].buffer_consumer.byte_range_to_buffer_consumer) :
                        batched_read_reqs[j].buffer_consumer.byte_range_to_buffer_consumer[k][2].id # id

\* C12 witness: two whole-object requests and a ranged request, all on "f"
C12_Witness ==
    /\ read_pc = "returned"
    /\ Len(read_reqs) = 3
    /\ \A i \in 1..3 : read_reqs[i].path = "f"
    /\ read_reqs[1].byte_range = None
    /\ read_reqs[2].byte_range = <<0, 100>>
    /\ read_reqs[3].byte_range = None
    /\ Len(batched_read_reqs) = 3

\* get_consuming_cost_bytes of a consumer handed in by the caller: the cost it
\* declares, fixed by the consumer
DeclaredConsumingCost(consumer) == 10 * consumer.id

\* sum(consumer.get_consuming_cost_bytes() for consumer in mapping.values())
RECURSIVE SumConsumingCosts(_, _)
SumConsumingCosts(mapping, i) ==
    IF i > Len(mapping) THEN 0
    ELSE DeclaredConsumingCost(mapping[i][2]) + SumConsumingCosts(mapping, i + 1)

\* BatchedBufferConsumer.get_consuming_cost_bytes
get_consuming_cost_bytes(consumer) ==
    consumer.buf_sz_bytes + SumConsumingCosts(consumer.byte_range_to_buffer_consumer, 1)

\* C16: for every merged request the aggregating consumer's declared buffer
\* size is the length of the request's covering range (upper - lower), and its
\* consuming cost is that length plus the sum of its sub-consumers' costs,
\* whatever the order and sizes of the sub-requests.
C16_BufferSizeIsCoveringLength ==
    read_pc = "returned" =>
        \A j \in MergedReqs :
            LET req == batched_read_reqs[j]
                covering == req.byte_range[2] - req.byte_range[1]
            IN /\ req.buffer_consumer.buf_sz_bytes = covering
               /\ get_consuming_cost_bytes(req.buffer_consumer) =
                     covering + SumConsumingCosts(req.buffer_consumer.byte_range_to_buffer_consumer, 1)

\* C20: provided every input range has lower <= upper, each sub-range (lo, hi)
\* of a merged request's aggregating consumer satisfies
\* 0 <= lo <= hi <= covering length, at least one sub-range has lo = 0 and at
\* least one has hi = covering length.
C20_SubRangesWithinCovering ==
    (/\ read_pc = "returned"
     /\ \A i \in 1..Len(read_reqs) :
           read_reqs[i].byte_range # None =>
               read_reqs[i].byte_range[1] <= read_reqs[i].byte_range[2])
        => \A j \in MergedReqs :
              LET m == batched_read_reqs[j].buffer_consumer.byte_range_to_buffer_consumer
                  covering == batched_read_reqs[j].byte_range
                  length == covering[2] - covering[1]
              IN /\ \A k \in 1..Len(m) :
                       /\ 0 <= m[k][1][1]
                       /\ m[k][1][1] <= m[k][1][2]
                       /\ m[k][1][2] <= length
                 /\ \E k \in 1..Len(m) : m[k][1][1] = 0
                 /\ \E k \in 1..Len(m) : m[k][1][2] = length

\* C20 witness: [100, 200) then [0, 100) on "g": the sub-range with lo = 0 and
\* the one with hi = covering length differ, and the covering range of a
\* second location starts above 0
C20_Witness ==
    /\ read_pc = "returned"
    /\ read_reqs = CallerReadReqs(<<<<"g", <<100, 200>>>>, <<"g", <<0, 100>>>>,
                                    <<"f", <<100, 200>>>>>>)
    /\ Len(batched_read_reqs) = 2
    /\ DictKeys(batched_read_reqs[1].buffer_consumer.byte_range_to_buffer_consumer)
          = {<<100, 200>>, <<0, 100>>}
    /\ DictKeys(batched_read_reqs[2].buffer_consumer.byte_range_to_buffer_consumer)
          = {<<0, 100>>}

====
